---- MODULE Spec2Model ----
(***************************************************************************)
(* Model of the loan schedule engine of src/src/lib/loan-lib.ts            *)
(* (generateLoanSchedule and its helpers).                                 *)
(*                                                                         *)
(* Numbers.  A JavaScript number is modelled by an exact fraction          *)
(* [n |-> numerator, d |-> denominator] in lowest terms with d >= 0.       *)
(* d = 0 encodes the non-finite values of IEEE arithmetic: n = 1 is        *)
(* Infinity, n = -1 is -Infinity and n = 0 is NaN.  Binary rounding error  *)
(* of the finite values is not modelled.                                   *)
(*                                                                         *)
(* Dates.  A Date is a calendar day [y, m, d] at local midnight.           *)
(*                                                                         *)
(* Let(v, LAMBDA x : e) is e with x standing for the value of v; it is     *)
(* LET x == v IN e with v evaluated once.                                  *)
(***************************************************************************)
EXTENDS Integers, Sequences, FiniteSets, TLC

VARIABLES
    params,                 \* the caller's LoanScheduleParams
    pc,                     \* "call", "loop", "done" or "error"
    sharedParams,           \* LoanCalcSharedParams
    earlyRepaymentRecords,  \* registry: EarlyRepaymentRecord by id
    schedule,               \* LoanScheduleEntry[]
    remainingTermMonths,
    startMonthlyPayment,
    window,                 \* locals of the last loop iteration
    returned                \* what an earlier call on the same params returned

vars == <<params, pc, sharedParams, earlyRepaymentRecords, schedule,
          remainingTermMonths, startMonthlyPayment, window, returned>>

(***************************************************************************)
(* Bound of the model                                                      *)
(***************************************************************************)
MaxTerm == 5

(***************************************************************************)
(* Evaluation helpers                                                      *)
(***************************************************************************)
The(S) == CHOOSE x \in S : TRUE

Let(v, F(_)) == The({F(x) : x \in {v}})

Let2(v, w, F(_, _)) == The({F(x, y) : x \in {v}, y \in {w}})

(***************************************************************************)
(* Number arithmetic                                                       *)
(***************************************************************************)
Abs(i) == IF i < 0 THEN -i ELSE i

Sgn(i) == IF i < 0 THEN -1 ELSE IF i > 0 THEN 1 ELSE 0

Min(i, j) == IF i <= j THEN i ELSE j

RECURSIVE GCD(_, _)
GCD(a0, b0) ==
    Let2(a0, b0, LAMBDA a, b : IF b = 0 THEN a ELSE GCD(b, a % b))

\* the number nn / dd
Norm(nn0, dd0) ==
    Let2(nn0, dd0, LAMBDA nn, dd :
        IF dd = 0 THEN [n |-> Sgn(nn), d |-> 0]
        ELSE Let2(IF dd < 0 THEN -1 ELSE 1, GCD(Abs(nn), Abs(dd)), LAMBDA s, g :
                 [n |-> (s * nn) \div g, d |-> (s * dd) \div g]))

Num(i) == [n |-> i, d |-> 1]

NaN == [n |-> 0, d |-> 0]

Infinity == [n |-> 1, d |-> 0]

IsNaN(x) == x.d = 0 /\ x.n = 0

IsFinite(x) == x.d > 0

Neg(x0) == Let(x0, LAMBDA x : [n |-> -x.n, d |-> x.d])

\* x + y
Add(x0, y0) ==
    Let2(x0, y0, LAMBDA x, y :
        IF IsNaN(x) \/ IsNaN(y) THEN NaN
        ELSE IF x.d = 0 /\ y.d = 0 THEN (IF x.n = y.n THEN x ELSE NaN)
        ELSE IF x.d = 0 THEN x
        ELSE IF y.d = 0 THEN y
        ELSE Let(GCD(x.d, y.d), LAMBDA g :
                 Norm(x.n * (y.d \div g) + y.n * (x.d \div g), (x.d \div g) * y.d)))

\* x - y
Sub(x, y) == Add(x, Neg(y))

\* x * y
Mul(x0, y0) ==
    Let2(x0, y0, LAMBDA x, y :
        IF x.d = 0 \/ y.d = 0 THEN Norm(x.n * y.n, x.d * y.d)
        ELSE Let2(GCD(Abs(x.n), y.d), GCD(Abs(y.n), x.d), LAMBDA g1, g2 :
                 Norm((x.n \div g1) * (y.n \div g2), (x.d \div g2) * (y.d \div g1))))

\* 1 / x
Inv(x0) ==
    Let(x0, LAMBDA x :
        IF x.n < 0 THEN [n |-> -x.d, d |-> -x.n] ELSE [n |-> x.d, d |-> x.n])

\* x / y
Div(x, y) == Mul(x, Inv(y))

\* x <= y, x < y, x == y and x != y of JavaScript: false whenever NaN is
\* involved, except != which is then true
Leq(x0, y0) ==
    Let2(x0, y0, LAMBDA x, y :
        IF IsNaN(x) \/ IsNaN(y) THEN FALSE
        ELSE IF x.d = 0 /\ y.d = 0 THEN x.n <= y.n
        ELSE x.n * y.d <= y.n * x.d)

Lt(x0, y0) ==
    Let2(x0, y0, LAMBDA x, y :
        IF IsNaN(x) \/ IsNaN(y) THEN FALSE
        ELSE IF x.d = 0 /\ y.d = 0 THEN x.n < y.n
        ELSE x.n * y.d < y.n * x.d)

NumEq(x0, y0) == Let2(x0, y0, LAMBDA x, y : ~IsNaN(x) /\ ~IsNaN(y) /\ x = y)

NumNe(x, y) == ~NumEq(x, y)

RECURSIVE IntPow(_, _)
IntPow(b, e) == IF e = 0 THEN 1 ELSE b * IntPow(b, e - 1)

\* Math.pow(x, e) for a finite x and an integer e
Pow(x0, e) ==
    Let(x0, LAMBDA x :
        IF e >= 0 THEN Norm(IntPow(x.n, e), IntPow(x.d, e))
        ELSE Inv(Norm(IntPow(x.n, -e), IntPow(x.d, -e))))

\* Math.round(x): the nearest integer, halves towards +Infinity
MathRound(x0) ==
    Let(x0, LAMBDA x : IF x.d = 0 THEN x ELSE Num((2 * x.n + x.d) \div (2 * x.d)))

\* Math.round(value * Math.pow(10, decimals)) / Math.pow(10, decimals).
\* The integer part of value is split off before scaling, which keeps the
\* intermediate products small and does not change the result.
roundDecimals(value0, decimals) ==
    Let(value0, LAMBDA value :
        IF value.d = 0 THEN value
        ELSE Let2(IntPow(10, decimals), value.n \div value.d, LAMBDA p, whole :
                 Div(Add(Num(whole * p),
                         MathRound(Mul(Norm(value.n - whole * value.d, value.d), Num(p)))),
                     Num(p))))

(***************************************************************************)
(* Calendar (JavaScript Date and date-fns)                                 *)
(***************************************************************************)
Date(y, m, d) == [y |-> y, m |-> m, d |-> d]

\* the absent optional date (earlyRepaymentDateEnd: undefined)
NoDate == [y |-> 0, m |-> 0, d |-> 0]

\* a Date object whose time value is NaN (new Date("no date"))
InvalidDate == [y |-> -1, m |-> -1, d |-> -1]

isValid(date) == date # InvalidDate

isLeapYear(y) == (y % 4 = 0 /\ y % 100 # 0) \/ y % 400 = 0

getDaysInMonth(y, m) ==
    IF m = 2 THEN (IF isLeapYear(y) THEN 29 ELSE 28)
    ELSE IF m \in {4, 6, 9, 11} THEN 30 ELSE 31

\* days of year y before its month m
DaysBeforeMonth(y, m) ==
    <<0, 31, 59, 90, 120, 151, 181, 212, 243, 273, 304, 334>>[m]
    + (IF m > 2 /\ isLeapYear(y) THEN 1 ELSE 0)

\* leap years before year y
LeapsBefore(y) == ((y - 1) \div 4) - ((y - 1) \div 100) + ((y - 1) \div 400)

\* the day number of a date (days since 0001-01-01, which has number 1): the
\* order of the timestamps of two dates at midnight
DayNumber(date0) ==
    Let(date0, LAMBDA date :
        365 * (date.y - 1) + LeapsBefore(date.y)
        + DaysBeforeMonth(date.y, date.m) + date.d)

\* the number of calendar days between two dates, NaN when one of them is invalid
differenceInCalendarDays(later, earlier) ==
    IF isValid(later) /\ isValid(earlier)
    THEN Num(DayNumber(later) - DayNumber(earlier))
    ELSE NaN

\* 0001-01-01 is a Monday: 0 = Sunday .. 6 = Saturday, as Date.getDay
getDay(date) == DayNumber(date) % 7

\* a test for Sunday alone
isSunday(date) == getDay(date) = 0

isWeekend(date) == getDay(date) \in {0, 6}

\* the day after
NextDay(date0) ==
    Let(date0, LAMBDA date :
        IF date.d < getDaysInMonth(date.y, date.m) THEN Date(date.y, date.m, date.d + 1)
        ELSE IF date.m < 12 THEN Date(date.y, date.m + 1, 1)
        ELSE Date(date.y + 1, 1, 1))

RECURSIVE AddDays(_, _)
AddDays(date0, k0) ==
    Let2(date0, k0, LAMBDA date, k :
        IF k = 0 THEN date ELSE AddDays(NextDay(date), k - 1))

\* date-fns nextMonday: the first Monday strictly after date
nextMonday(date0) ==
    Let2(date0, getDay(date0), LAMBDA date, day :
        AddDays(date, IF day = 0 THEN 1 ELSE 8 - day))

\* Date.setDate(day) for day >= 1: a day past the end of the month rolls over
\* into the following month
setDate(date0, day) ==
    Let(date0, LAMBDA date :
        Let(getDaysInMonth(date.y, date.m), LAMBDA dim :
            IF day <= dim THEN Date(date.y, date.m, day)
            ELSE IF date.m < 12 THEN Date(date.y, date.m + 1, day - dim)
            ELSE Date(date.y + 1, 1, day - dim)))

\* date-fns addMonths: the same day of the month k months later, or the last
\* day of that month when it is shorter
addMonths(date0, k) ==
    Let2(date0, (date0.m - 1) + k, LAMBDA date, idx :
        Let2(date.y + (idx \div 12), (idx % 12) + 1, LAMBDA y, m :
            Date(y, m, Min(date.d, getDaysInMonth(y, m)))))

\* < and <= of two Dates compare their time values: false when one is NaN
DateLt(a, b) == isValid(a) /\ isValid(b) /\ DayNumber(a) < DayNumber(b)

DateLeq(a, b) == isValid(a) /\ isValid(b) /\ DayNumber(a) <= DayNumber(b)

moveToNextDate(currentDate, paymentDayNumber, moveHolidayToNextDay) ==
    IF ~isValid(currentDate) THEN InvalidDate ELSE
    Let(addMonths(IF currentDate.d # paymentDayNumber
                  THEN setDate(currentDate, paymentDayNumber)
                  ELSE currentDate, 1),
        LAMBDA nextDate :
            IF moveHolidayToNextDay /\ isWeekend(nextDate)
            THEN nextMonday(nextDate)
            ELSE nextDate)

getMonthDaysAndYearDays(paymentDate0, dayCountBasis) ==
    Let(paymentDate0, LAMBDA paymentDate :
        IF ~isValid(paymentDate) THEN
            [daysInYear |-> IF dayCountBasis = "ACTUAL_360" THEN 360 ELSE 365,
             daysInMonth |-> IF dayCountBasis = "ACTUAL_360" THEN 30 ELSE NaN]
        ELSE IF dayCountBasis = "ACTUAL_365" THEN
            [daysInYear |-> 365,
             daysInMonth |-> IF getDaysInMonth(paymentDate.y, paymentDate.m) = 29
                             THEN 28
                             ELSE getDaysInMonth(paymentDate.y, paymentDate.m)]
        ELSE IF dayCountBasis = "ACTUAL_ACTUAL" THEN
            [daysInYear |-> IF isLeapYear(paymentDate.y) THEN 366 ELSE 365,
             daysInMonth |-> getDaysInMonth(paymentDate.y, paymentDate.m)]
        ELSE [daysInYear |-> 360, daysInMonth |-> 30])

calculateAnnuityMonthlyPayment(principal, monthlyInterestRate, termMonths, decimals) ==
    Let2(Mul(principal, monthlyInterestRate),
         Pow(Add(Num(1), monthlyInterestRate), termMonths),
         LAMBDA interest, grown :
            roundDecimals(Div(Mul(interest, grown), Sub(grown, Num(1))), decimals))

\* remainingPrincipal * (annualInterestRatePercent / 100 / daysInYear) * dayDifference,
\* rounded
AccruedInterest(remainingPrincipal, annualInterestRatePercent, daysInYear, dayDifference, decimals) ==
    roundDecimals(
        Mul(Mul(remainingPrincipal,
                Div(Div(annualInterestRatePercent, Num(100)), Num(daysInYear))),
            dayDifference),
        decimals)

(***************************************************************************)
(* Early-repayment registry and protocol                                   *)
(***************************************************************************)
Periodicities == <<"ONCE", "MONTHLY", "QUARTERLY", "YEARLY">>

\* the record the engine keeps of parameter rule number index (ids from 0)
EarlyRepaymentRecord(earlyRepayment, index) ==
    [id                      |-> index,
     earlyRepaymentDateStart |-> earlyRepayment.earlyRepaymentDateStart,
     earlyRepaymentDateEnd   |-> earlyRepayment.earlyRepaymentDateEnd,
     periodicity             |-> earlyRepayment.periodicity,
     earlyRepaymentAmount    |-> earlyRepayment.earlyRepaymentAmount,
     repaymentType           |-> earlyRepayment.repaymentType,
     earlyRepaymentDate      |-> earlyRepayment.earlyRepaymentDateStart]

\* a.earlyRepaymentDate.getTime() - b.earlyRepaymentDate.getTime() < 0
orderByDate(a, b) == DateLt(a.earlyRepaymentDate, b.earlyRepaymentDate)

\* every record of one periodicity, not only element [0] of the sorted class
ClassMembers(records, periodicity) ==
    {i \in DOMAIN records : records[i].periodicity = periodicity}

\* element [0] of the records of one periodicity after the stable sort by due
\* date: the set holding the id of the earliest-due record, the smallest id
\* among equal dates; empty when the class is empty
ClassHead(records, periodicity) ==
    Let({i \in DOMAIN records : records[i].periodicity = periodicity}, LAMBDA ids :
        {i \in ids : \A j \in ids :
            \/ orderByDate(records[i], records[j])
            \/ (~orderByDate(records[j], records[i]) /\ i <= j)})

\* the filter of the four class heads
DueInWindow(earlyRepayment, currentDate, nextDate) ==
    /\ ~(/\ earlyRepayment.earlyRepaymentDateEnd # NoDate
         /\ DateLt(earlyRepayment.earlyRepaymentDateEnd, currentDate))
    /\ DateLt(currentDate, earlyRepayment.earlyRepaymentDate)
    /\ DateLeq(earlyRepayment.earlyRepaymentDate, nextDate)

\* position of a periodicity in the array of class heads
ClassRank(periodicity) == CHOOSE k \in 1..4 : Periodicities[k] = periodicity

\* the stable sort by due date of the records ids0, whose order before the
\* sort is that of Periodicities
RECURSIVE SortByDate(_, _)
SortByDate(records, ids0) ==
    Let(ids0, LAMBDA ids :
        IF ids = {} THEN <<>>
        ELSE Let(CHOOSE i \in ids : \A j \in ids :
                    \/ orderByDate(records[i], records[j])
                    \/ /\ ~orderByDate(records[j], records[i])
                       /\ ClassRank(records[i].periodicity)
                            <= ClassRank(records[j].periodicity),
                 LAMBDA first : <<first>> \o SortByDate(records, ids \ {first})))

\* the head of class number k when it is due in the window, as a sequence
DueHead(records, k, currentDate, nextDate) ==
    Let({i \in ClassHead(records, Periodicities[k]) :
            DueInWindow(records[i], currentDate, nextDate)}, LAMBDA head :
        IF head = {} THEN <<>> ELSE <<The(head)>>)

\* the due class heads in the order of the classes, without the final sort
getNextEarlyRepaymentUnsorted(records, currentDate, nextDate) ==
    DueHead(records, 1, currentDate, nextDate)
        \o DueHead(records, 2, currentDate, nextDate)
        \o DueHead(records, 3, currentDate, nextDate)
        \o DueHead(records, 4, currentDate, nextDate)

\* the ids of the records to apply in the window (currentDate, nextDate], in order
getNextEarlyRepayment(records, currentDate, nextDate) ==
    SortByDate(records,
        {i \in UNION {ClassHead(records, Periodicities[k]) : k \in 1..4} :
            DueInWindow(records[i], currentDate, nextDate)})

\* interest accrued on the balance from the current anchor date to the due date
EarlyRepaymentInterest(sp, earlyRepayment) ==
    AccruedInterest(sp.remainingPrincipal, sp.annualInterestRatePercent,
        getMonthDaysAndYearDays(earlyRepayment.earlyRepaymentDate,
                                sp.dayCountBasis).daysInYear,
        differenceInCalendarDays(earlyRepayment.earlyRepaymentDate, sp.currentDate),
        sp.roundingDecimals)

\* the schedule entry of a repayment that does not exceed the accrued interest
InterestOnlyEntry(sp, earlyRepayment) ==
    [paymentDate        |-> earlyRepayment.earlyRepaymentDate,
     paymentAmount      |-> earlyRepayment.earlyRepaymentAmount,
     interestAmount     |-> earlyRepayment.earlyRepaymentAmount,
     principalAmount    |-> Num(0),
     remainingPrincipal |-> sp.remainingPrincipal,
     isEarlyRepayment   |-> TRUE]

\* the schedule entry of a repayment that reduces the principal, with the clamp
\* of the balance at 0
PrincipalEntry(sp, earlyRepayment, interestAmount) ==
    Let(roundDecimals(Sub(earlyRepayment.earlyRepaymentAmount, interestAmount),
                      sp.roundingDecimals),
        LAMBDA principalAmount :
    Let(roundDecimals(Sub(sp.remainingPrincipal, principalAmount), sp.roundingDecimals),
        LAMBDA remaining :
            IF Lt(remaining, Num(0))
            THEN [paymentDate        |-> earlyRepayment.earlyRepaymentDate,
                  paymentAmount      |-> Add(earlyRepayment.earlyRepaymentAmount, remaining),
                  interestAmount     |-> interestAmount,
                  principalAmount    |-> Add(principalAmount, remaining),
                  remainingPrincipal |-> Num(0),
                  isEarlyRepayment   |-> TRUE]
            ELSE [paymentDate        |-> earlyRepayment.earlyRepaymentDate,
                  paymentAmount      |-> earlyRepayment.earlyRepaymentAmount,
                  interestAmount     |-> interestAmount,
                  principalAmount    |-> principalAmount,
                  remainingPrincipal |-> remaining,
                  isEarlyRepayment   |-> TRUE]))

\* the engine state after a repayment when the annuity payment is recomputed
\* whatever the repaymentType
RepaidSharedParamsRecomputed(sp, earlyRepayment, interestAmount, entry) ==
    [sp EXCEPT
        !.remainingInterestAmount =
            IF Leq(earlyRepayment.earlyRepaymentAmount, interestAmount)
            THEN roundDecimals(Sub(interestAmount, earlyRepayment.earlyRepaymentAmount),
                               sp.roundingDecimals)
            ELSE @,
        !.remainingPrincipal = entry.remainingPrincipal,
        !.annuityMonthlyPayment =
            IF sp.loanType = "ANNUITY"
            THEN calculateAnnuityMonthlyPayment(entry.remainingPrincipal,
                     sp.monthlyInterestRate, sp.termMonthsToCalculate,
                     sp.roundingDecimals)
            ELSE @,
        !.amortizationPrincipal =
            IF sp.loanType = "AMORTIZATION"
            THEN roundDecimals(Div(entry.remainingPrincipal, Num(sp.termMonthsToCalculate)),
                               sp.roundingDecimals)
            ELSE @,
        !.previousDate = sp.currentDate,
        !.currentDate = earlyRepayment.earlyRepaymentDate]

\* the engine state after a repayment: interest carry, balance, recomputed
\* regime parameters and anchor dates
RepaidSharedParams(sp, earlyRepayment, interestAmount, entry) ==
    [sp EXCEPT
        !.remainingInterestAmount =
            IF Leq(earlyRepayment.earlyRepaymentAmount, interestAmount)
            THEN roundDecimals(Sub(interestAmount, earlyRepayment.earlyRepaymentAmount),
                               sp.roundingDecimals)
            ELSE @,
        !.remainingPrincipal = entry.remainingPrincipal,
        !.annuityMonthlyPayment =
            IF sp.loanType = "ANNUITY"
               /\ earlyRepayment.repaymentType = "DECREASE_PAYMENT"
            THEN calculateAnnuityMonthlyPayment(entry.remainingPrincipal,
                     sp.monthlyInterestRate, sp.termMonthsToCalculate,
                     sp.roundingDecimals)
            ELSE @,
        !.amortizationPrincipal =
            IF sp.loanType = "AMORTIZATION"
            THEN roundDecimals(Div(entry.remainingPrincipal, Num(sp.termMonthsToCalculate)),
                               sp.roundingDecimals)
            ELSE @,
        !.previousDate = sp.currentDate,
        !.currentDate = earlyRepayment.earlyRepaymentDate]

\* months between two due dates of a recurring rule
PeriodMonths(periodicity) ==
    IF periodicity = "MONTHLY" THEN 1
    ELSE IF periodicity = "QUARTERLY" THEN 3
    ELSE 12

\* the rule object after the periodicity switch: the due date of a recurring
\* rule is advanced in the object itself
AdvancedRule(earlyRepayment) ==
    IF earlyRepayment.periodicity = "ONCE" THEN earlyRepayment
    ELSE [earlyRepayment EXCEPT !.earlyRepaymentDate =
             addMonths(@, PeriodMonths(earlyRepayment.periodicity))]

\* the end-bound test on the advanced rule of a recurring rule
PastEnd(advanced) ==
    /\ advanced.periodicity # "ONCE"
    /\ advanced.earlyRepaymentDateEnd # NoDate
    /\ DateLt(advanced.earlyRepaymentDateEnd, advanced.earlyRepaymentDate)

\* Result: the state after the repayment, its schedule entry, whether the rule
\* is to be deleted, whether an updated rule is returned, and the rule object
\* as the call leaves it.
applyEarlyRepayment(sp0, earlyRepayment0) ==
    Let2(sp0, earlyRepayment0, LAMBDA sp, earlyRepayment :
    Let2(EarlyRepaymentInterest(sp, earlyRepayment), AdvancedRule(earlyRepayment),
         LAMBDA interestAmount, advanced :
    Let2(IF Leq(earlyRepayment.earlyRepaymentAmount, interestAmount)
         THEN InterestOnlyEntry(sp, earlyRepayment)
         ELSE PrincipalEntry(sp, earlyRepayment, interestAmount),
         earlyRepayment.periodicity = "ONCE" \/ PastEnd(advanced),
         LAMBDA entry, delete :
            [updatedSharedParams   |->
                 RepaidSharedParams(sp, earlyRepayment, interestAmount, entry),
             loanSchedule          |-> entry,
             deleteEarlyRepayment  |-> delete,
             updatedEarlyRepayment |-> ~delete,
             earlyRepayment        |-> advanced])))

\* the loop of applyEarlyRepayments from position i of the ordered ids; acc0 is
\* the result so far, acc0.records the registry objects as mutated so far
RECURSIVE ApplyEarlyRepaymentsFrom(_, _, _, _)
ApplyEarlyRepaymentsFrom(sp, ordered, i, acc0) ==
    IF i > Len(ordered) THEN acc0
    ELSE
    Let2(acc0, ordered[i], LAMBDA acc, id :
    Let(applyEarlyRepayment(sp, acc.records[id]), LAMBDA result :
        IF Leq(result.updatedSharedParams.remainingPrincipal, Num(0))
        THEN [acc EXCEPT
                !.updatedSharedParams =
                    [result.updatedSharedParams EXCEPT !.remainingPrincipal = Num(0)],
                !.loanSchedule = Append(@, result.loanSchedule),
                !.records[id] = result.earlyRepayment]
        ELSE ApplyEarlyRepaymentsFrom(sp, ordered, i + 1,
                [updatedSharedParams    |-> result.updatedSharedParams,
                 loanSchedule           |-> Append(acc.loanSchedule, result.loanSchedule),
                 deletedEarlyRepayments |->
                     IF result.deleteEarlyRepayment
                     THEN acc.deletedEarlyRepayments \cup {id}
                     ELSE acc.deletedEarlyRepayments,
                 updatedEarlyRepayments |->
                     IF result.updatedEarlyRepayment
                     THEN acc.updatedEarlyRepayments \cup {id}
                     ELSE acc.updatedEarlyRepayments,
                 records                |->
                     [acc.records EXCEPT ![id] = result.earlyRepayment]])))

applyEarlyRepayments(sp, ordered, records) ==
    ApplyEarlyRepaymentsFrom(sp, ordered, 1,
        [updatedSharedParams    |-> sp,
         loanSchedule           |-> <<>>,
         deletedEarlyRepayments |-> {},
         updatedEarlyRepayments |-> {},
         records                |-> records])

(***************************************************************************)
(* generateLoanSchedule                                                    *)
(***************************************************************************)
\* the value of a variable that holds nothing yet
Undefined == [undefined |-> TRUE]

\* params.paymentDayNumber ?? issueDate.getDate()  (0 models an absent number)
PaymentDayNumber(p) ==
    IF p.paymentDayNumber = 0 THEN p.issueDate.d ELSE p.paymentDayNumber

Valid(p) ==
    /\ ~Leq(p.principal, Num(0))
    /\ ~(p.termMonths <= 0)
    /\ ~Lt(p.annualInterestRatePercent, Num(0))

RegistryOf(earlyRepayments) ==
    [index \in 0..(Len(earlyRepayments) - 1) |->
        EarlyRepaymentRecord(earlyRepayments[index + 1], index)]

TermMonthsToCalculate(p) ==
    IF p.interestOnlyFirstPeriod THEN p.termMonths - 2 ELSE p.termMonths

InitialSharedParams(p) ==
    Let(Div(Div(p.annualInterestRatePercent, Num(12)), Num(100)),
        LAMBDA monthlyInterestRate :
        [loanType                  |-> p.loanType,
         previousDate              |-> p.issueDate,
         currentDate               |-> p.issueDate,
         nextDate                  |-> moveToNextDate(p.issueDate, PaymentDayNumber(p),
                                                      p.moveHolidayToNextDay),
         remainingPrincipal        |-> p.principal,
         termMonthsToCalculate     |-> TermMonthsToCalculate(p),
         monthlyInterestRate       |-> monthlyInterestRate,
         annualInterestRatePercent |-> p.annualInterestRatePercent,
         amortizationPrincipal     |-> Div(p.principal, Num(TermMonthsToCalculate(p))),
         annuityMonthlyPayment     |->
             calculateAnnuityMonthlyPayment(p.principal, monthlyInterestRate,
                                            TermMonthsToCalculate(p), p.roundingDecimals),
         remainingInterestAmount   |-> Num(0),
         roundingDecimals          |-> p.roundingDecimals,
         dayCountBasis             |-> p.dayCountBasis])

StartMonthlyPayment(sp) ==
    IF sp.loanType = "ANNUITY" THEN sp.annuityMonthlyPayment
    ELSE sp.amortizationPrincipal

\* issueDate.setHours(24, 0, 0, 0) instead: the caller's Date object moves on
\* to the next midnight
NextMidnight(p) ==
    IF isValid(p.issueDate)
    THEN [p EXCEPT !.issueDate = setDate(p.issueDate, p.issueDate.d + 1), !.issueHours = 0]
    ELSE p

\* issueDate.setHours(0, 0, 0, 0) on the caller's Date object
ZeroHours(p) == [p EXCEPT !.issueHours = 0]

\* the call fails validation: an exception, nothing is returned
Reject ==
    /\ pc = "call"
    /\ ~Valid(params)
    /\ params' = ZeroHours(params)
    /\ pc' = "error"
    /\ UNCHANGED <<sharedParams, earlyRepaymentRecords, schedule,
                   remainingTermMonths, startMonthlyPayment, window, returned>>

\* the call up to the first test of the loop condition
Call ==
    /\ pc = "call"
    /\ Valid(params)
    /\ params' = ZeroHours(params)
    /\ earlyRepaymentRecords' = RegistryOf(params.earlyRepayments)
    /\ \E sp \in {InitialSharedParams(params)} :
          /\ sharedParams' = sp
          /\ startMonthlyPayment' = StartMonthlyPayment(sp)
    /\ remainingTermMonths' = params.termMonths
    /\ schedule' = <<>>
    /\ window' = Undefined
    /\ pc' = "loop"
    /\ UNCHANGED returned

\* the registry after the deletions and updates of a window
UpdatedRegistry(applied) ==
    [id \in (DOMAIN applied.records) \ applied.deletedEarlyRepayments |->
        applied.records[id]]

\* the interest of the regular payment on the 30/360 reading: a month of
\* daysInMonth days whatever the calendar says
RegularInterestByMonth(sp) ==
    IF NumNe(sp.remainingInterestAmount, Num(0))
    THEN sp.remainingInterestAmount
    ELSE Let(getMonthDaysAndYearDays(sp.nextDate, sp.dayCountBasis), LAMBDA basis :
             AccruedInterest(sp.remainingPrincipal, sp.annualInterestRatePercent,
                 basis.daysInYear,
                 IF sp.dayCountBasis = "ACTUAL_360"
                 THEN Num(basis.daysInMonth)
                 ELSE differenceInCalendarDays(sp.nextDate, sp.currentDate),
                 sp.roundingDecimals))

\* the interest of the regular payment: the carry when there is one
RegularInterest(sp) ==
    IF NumNe(sp.remainingInterestAmount, Num(0))
    THEN sp.remainingInterestAmount
    ELSE AccruedInterest(sp.remainingPrincipal, sp.annualInterestRatePercent,
             getMonthDaysAndYearDays(sp.nextDate, sp.dayCountBasis).daysInYear,
             differenceInCalendarDays(sp.nextDate, sp.currentDate),
             sp.roundingDecimals)

\* The first part of a loop iteration: reset of the interest carry, the early
\* repayments of the window, and the interest of the regular payment.
EarlyStage ==
    Let([sharedParams EXCEPT !.remainingInterestAmount = Num(0)], LAMBDA sp0 :
    Let(getNextEarlyRepayment(earlyRepaymentRecords, sp0.currentDate, sp0.nextDate),
        LAMBDA nextEarlyRepayment :
        IF Len(nextEarlyRepayment) > 0
        THEN Let(applyEarlyRepayments(sp0, nextEarlyRepayment, earlyRepaymentRecords),
                 LAMBDA applied :
                    [start              |-> sp0,
                     nextEarlyRepayment |-> nextEarlyRepayment,
                     sharedParams       |-> applied.updatedSharedParams,
                     records            |-> UpdatedRegistry(applied),
                     loanSchedule       |-> applied.loanSchedule,
                     interestAmount     |-> RegularInterest(applied.updatedSharedParams)])
        ELSE [start              |-> sp0,
              nextEarlyRepayment |-> nextEarlyRepayment,
              sharedParams       |-> sp0,
              records            |-> earlyRepaymentRecords,
              loanSchedule       |-> <<>>,
              interestAmount     |-> RegularInterest(sp0)]))

\* the locals of the iteration that the properties below refer to
Window(stage, branch) ==
    [branch         |-> branch,
     start          |-> stage.start,
     selected       |-> Len(stage.nextEarlyRepayment),
     nextEarlyRepayment |->
         [k \in 1..Len(stage.nextEarlyRepayment) |->
             earlyRepaymentRecords[stage.nextEarlyRepayment[k]]],
     applied        |-> Len(stage.loanSchedule),
     afterEarly     |-> stage.sharedParams,
     interestAmount |-> stage.interestAmount]

\* the test of the flag alone, in every period
InterestOnlyFlag == params.interestOnlyFirstPeriod

IsInterestOnly == remainingTermMonths = params.termMonths /\ params.interestOnlyFirstPeriod

IsFinal(sp) ==
    \/ remainingTermMonths = 1
    \/ /\ params.loanType = "ANNUITY"
       /\ Leq(sp.remainingPrincipal, sp.annuityMonthlyPayment)

\* the anchor advance at the end of an iteration
Advance(sp) ==
    [sp EXCEPT !.previousDate = sp.currentDate,
               !.currentDate = sp.nextDate,
               !.nextDate = moveToNextDate(sp.nextDate, PaymentDayNumber(params),
                                           params.moveHolidayToNextDay)]

LoopTest(months) == IF months > 0 THEN "loop" ELSE "done"

\* an iteration that ends in the interest-only branch
InterestOnlyPeriod ==
    /\ pc = "loop"
    /\ IsInterestOnly
    /\ \E stage \in {EarlyStage} : \E sp \in {stage.sharedParams} :
          /\ schedule' = Append(schedule \o stage.loanSchedule,
                  [paymentDate        |-> sp.nextDate,
                   paymentAmount      |-> stage.interestAmount,
                   interestAmount     |-> stage.interestAmount,
                   principalAmount    |-> Num(0),
                   remainingPrincipal |-> sp.remainingPrincipal,
                   isEarlyRepayment   |-> FALSE])
          /\ sharedParams' = Advance(sp)
          /\ earlyRepaymentRecords' = stage.records
          /\ window' = Window(stage, "INTEREST_ONLY")
    /\ remainingTermMonths' = remainingTermMonths - 1
    /\ pc' = LoopTest(remainingTermMonths - 1)
    /\ UNCHANGED <<params, startMonthlyPayment, returned>>

\* an iteration that ends with the final entry and leaves the loop
FinalPayment ==
    /\ pc = "loop"
    /\ ~IsInterestOnly
    /\ \E stage \in {EarlyStage} : \E sp \in {stage.sharedParams} :
          /\ IsFinal(sp)
          /\ schedule' = Append(schedule \o stage.loanSchedule,
                  [paymentDate        |-> sp.nextDate,
                   paymentAmount      |->
                       roundDecimals(Add(sp.remainingPrincipal, stage.interestAmount),
                                     params.roundingDecimals),
                   interestAmount     |-> stage.interestAmount,
                   principalAmount    |-> sp.remainingPrincipal,
                   remainingPrincipal |-> Num(0),
                   isEarlyRepayment   |-> FALSE])
          /\ sharedParams' = sp
          /\ earlyRepaymentRecords' = stage.records
          /\ window' = Window(stage, "FINAL")
    /\ pc' = "done"
    /\ UNCHANGED <<params, remainingTermMonths, startMonthlyPayment, returned>>

\* the principal part of a regular annuity payment
AnnuityPrincipal(sp, interestAmount) ==
    roundDecimals(Sub(sp.annuityMonthlyPayment, interestAmount), sp.roundingDecimals)

\* an iteration that ends in the ANNUITY branch
AnnuityPeriod ==
    /\ pc = "loop"
    /\ ~IsInterestOnly
    /\ params.loanType = "ANNUITY"
    /\ \E stage \in {EarlyStage} : \E sp \in {stage.sharedParams} :
          /\ ~IsFinal(sp)
          /\ \E principalAmount \in {AnnuityPrincipal(sp, stage.interestAmount)} :
             \E remaining \in {roundDecimals(Sub(sp.remainingPrincipal, principalAmount),
                                             params.roundingDecimals)} :
                /\ schedule' = Append(schedule \o stage.loanSchedule,
                        [paymentDate        |-> sp.nextDate,
                         paymentAmount      |-> sp.annuityMonthlyPayment,
                         interestAmount     |-> stage.interestAmount,
                         principalAmount    |-> principalAmount,
                         remainingPrincipal |-> remaining,
                         isEarlyRepayment   |-> FALSE])
                /\ sharedParams' = Advance([sp EXCEPT !.remainingPrincipal = remaining])
          /\ earlyRepaymentRecords' = stage.records
          /\ window' = Window(stage, "ANNUITY")
    /\ remainingTermMonths' = remainingTermMonths - 1
    /\ pc' = LoopTest(remainingTermMonths - 1)
    /\ UNCHANGED <<params, startMonthlyPayment, returned>>

\* the balance after a regular differentiated payment
AmortizationRemaining(sp) ==
    roundDecimals(Sub(sp.remainingPrincipal, sp.amortizationPrincipal),
                  sp.roundingDecimals)

\* an iteration that ends in the AMORTIZATION (differentiated) branch
AmortizationPeriod ==
    /\ pc = "loop"
    /\ ~IsInterestOnly
    /\ params.loanType # "ANNUITY"
    /\ \E stage \in {EarlyStage} : \E sp \in {stage.sharedParams} :
          /\ ~IsFinal(sp)
          /\ \E remaining \in {AmortizationRemaining(sp)} :
                /\ schedule' = Append(schedule \o stage.loanSchedule,
                        [paymentDate        |-> sp.nextDate,
                         paymentAmount      |->
                             roundDecimals(Add(sp.amortizationPrincipal,
                                               stage.interestAmount),
                                           params.roundingDecimals),
                         interestAmount     |-> stage.interestAmount,
                         principalAmount    |-> sp.amortizationPrincipal,
                         remainingPrincipal |-> remaining,
                         isEarlyRepayment   |-> FALSE])
                /\ sharedParams' = Advance([sp EXCEPT !.remainingPrincipal = remaining])
          /\ earlyRepaymentRecords' = stage.records
          /\ window' = Window(stage, "AMORTIZATION")
    /\ remainingTermMonths' = remainingTermMonths - 1
    /\ pc' = LoopTest(remainingTermMonths - 1)
    /\ UNCHANGED <<params, startMonthlyPayment, returned>>

(***************************************************************************)
(* Inputs of the model                                                     *)
(***************************************************************************)
LoanTypes == {"ANNUITY", "AMORTIZATION"}

DayCountBases == {"ACTUAL_365", "ACTUAL_360", "ACTUAL_ACTUAL"}

IssueDates == {Date(2024, 1, 15), Date(2024, 5, 15), Date(2024, 1, 31), Date(2024, 3, 1)}

Loan(principal, rate, loanType, termMonths, issueDate, paymentDayNumber, interestOnly, moveHoliday, basis, decimals, earlyRepayments) ==
    [principal                 |-> Num(principal),
     annualInterestRatePercent |-> Num(rate),
     loanType                  |-> loanType,
     termMonths                |-> termMonths,
     issueDate                 |-> issueDate,
     issueHours                |-> 0,
     paymentDayNumber          |-> paymentDayNumber,
     interestOnlyFirstPeriod   |-> interestOnly,
     moveHolidayToNextDay      |-> moveHoliday,
     dayCountBasis             |-> basis,
     roundingDecimals          |-> decimals,
     earlyRepayments           |-> earlyRepayments]

\* loans without early repayments
PlainLoans ==
    {Loan(principal, rate, loanType, termMonths, issueDate, paymentDayNumber,
          interestOnly, moveHoliday, basis, 0, <<>>) :
        principal \in {10, 20, 100}, rate \in {0, 120, 600}, loanType \in LoanTypes,
        termMonths \in 1..MaxTerm, issueDate \in IssueDates,
        paymentDayNumber \in {0, 31}, interestOnly \in BOOLEAN,
        moveHoliday \in BOOLEAN, basis \in DayCountBases}

Rule(start, end, periodicity, amount, repaymentType) ==
    [earlyRepaymentDateStart |-> start,
     earlyRepaymentDateEnd   |-> end,
     periodicity             |-> periodicity,
     earlyRepaymentAmount    |-> Num(amount),
     repaymentType           |-> repaymentType]

RuleStarts == {Date(2024, 2, 1), Date(2024, 2, 10), Date(2024, 3, 20)}

RuleAmounts == {1, 30, 500}

Rules ==
    {Rule(start, end, periodicity, amount, repaymentType) :
        start \in RuleStarts, end \in {NoDate, Date(2024, 3, 31)},
        periodicity \in {Periodicities[k] : k \in 1..4}, amount \in RuleAmounts,
        repaymentType \in {"DECREASE_TERM", "DECREASE_PAYMENT"}}

OpenEndedRules ==
    {r \in Rules : r.earlyRepaymentDateEnd = NoDate /\ r.repaymentType = "DECREASE_TERM"}

EarlyRepaymentLists ==
    {<<r>> : r \in Rules} \cup {<<r1, r2>> : r1 \in OpenEndedRules, r2 \in OpenEndedRules}

\* loans with early repayments, issued on 2024-01-15 and paid on the 15th
RepaidLoans ==
    {Loan(100, 600, loanType, MaxTerm - 1, Date(2024, 1, 15), 0,
          interestOnly, FALSE, "ACTUAL_360", 0, earlyRepayments) :
        loanType \in LoanTypes, interestOnly \in BOOLEAN,
        earlyRepayments \in EarlyRepaymentLists}

\* a rule of every class and a second MONTHLY one, all due in the first window
RulesOfEveryClass ==
    <<Rule(Date(2024, 2, 10), NoDate, "ONCE", 30, "DECREASE_TERM"),
      Rule(Date(2024, 2, 1), NoDate, "MONTHLY", 1, "DECREASE_TERM"),
      Rule(Date(2024, 2, 10), NoDate, "QUARTERLY", 30, "DECREASE_PAYMENT"),
      Rule(Date(2024, 2, 1), NoDate, "YEARLY", 1, "DECREASE_TERM"),
      Rule(Date(2024, 2, 10), NoDate, "MONTHLY", 30, "DECREASE_TERM")>>

\* loans with more rules than classes
ManyRuleLoans ==
    {Loan(100, 600, loanType, MaxTerm - 1, Date(2024, 1, 15), 0,
          interestOnly, FALSE, "ACTUAL_360", 0, RulesOfEveryClass) :
        loanType \in LoanTypes, interestOnly \in BOOLEAN}

\* rules whose end date lies before their start date
EndedBeforeStart ==
    {Rule(Date(2024, 2, 10), Date(2024, 2, 5), periodicity, 30, repaymentType) :
        periodicity \in {Periodicities[k] : k \in 1..4},
        repaymentType \in {"DECREASE_TERM", "DECREASE_PAYMENT"}}

EndedRuleLoans ==
    {Loan(100, 600, loanType, MaxTerm - 1, Date(2024, 1, 15), 0,
          interestOnly, FALSE, "ACTUAL_360", 0, <<r>>) :
        loanType \in LoanTypes, interestOnly \in BOOLEAN, r \in EndedBeforeStart}

\* scenario A of the specification: 12000 at 0 % over 12 months
ScenarioA ==
    {Loan(12000, 0, loanType, 12, Date(2024, 1, 15), 0, FALSE, FALSE, basis, 2, <<>>) :
        loanType \in LoanTypes, basis \in DayCountBases}

\* scenario B of the specification: 100000 at 12 % over 3 months, differentiated
ScenarioB ==
    {Loan(100000, 12, "AMORTIZATION", 3, issueDate, 0, FALSE, FALSE, "ACTUAL_360", 2, <<>>) :
        issueDate \in IssueDates}

\* calls that fail validation
InvalidLoans ==
    {Loan(principal, rate, "ANNUITY", termMonths, Date(2024, 1, 15), 0,
          FALSE, FALSE, "ACTUAL_365", 2, <<>>) :
        principal \in {-5, 0, 100}, rate \in {-1, 10}, termMonths \in {-1, 0, 3}}

\* a Date object passed as issueDate may carry a time of day
WithHours(loans) == {[p EXCEPT !.issueHours = 9] : p \in loans}

\* calls whose issueDate is an invalid Date
InvalidDateLoans ==
    {Loan(10, rate, loanType, termMonths, InvalidDate, 0, interestOnly, FALSE,
          "ACTUAL_365", 0, <<>>) :
        rate \in {0, 120}, loanType \in LoanTypes, termMonths \in {-1, 3},
        interestOnly \in BOOLEAN}

Inputs ==
    PlainLoans \cup RepaidLoans \cup ScenarioA \cup ScenarioB \cup InvalidLoans
    \cup WithHours(ScenarioB) \cup InvalidDateLoans \cup ManyRuleLoans \cup EndedRuleLoans

Init ==
    /\ params \in Inputs
    /\ pc = "call"
    /\ sharedParams = Undefined
    /\ earlyRepaymentRecords = Undefined
    /\ schedule = <<>>
    /\ remainingTermMonths = 0
    /\ startMonthlyPayment = Undefined
    /\ window = Undefined
    /\ returned = Undefined

Next ==
    \/ Reject
    \/ Call
    \/ InterestOnlyPeriod
    \/ FinalPayment
    \/ AnnuityPeriod
    \/ AmortizationPeriod

Spec == Init /\ [][Next]_vars

\* the caller keeps what the call returned (or that it threw) and calls again
\* with the same params object: every local of the function is created anew
CallAgain ==
    /\ pc \in {"done", "error"}
    /\ returned = Undefined
    /\ returned' = [outcome             |-> pc,
                    schedule            |-> schedule,
                    startMonthlyPayment |-> startMonthlyPayment]
    /\ pc' = "call"
    /\ sharedParams' = Undefined
    /\ earlyRepaymentRecords' = Undefined
    /\ schedule' = <<>>
    /\ remainingTermMonths' = 0
    /\ startMonthlyPayment' = Undefined
    /\ window' = Undefined
    /\ UNCHANGED params

\* the loans that are computed twice: their issueDate carries a time of day
TwiceInputs ==
    WithHours(ScenarioB \cup InvalidLoans \cup InvalidDateLoans
              \cup {p \in RepaidLoans : Len(p.earlyRepayments) = 1})

InitTwice ==
    /\ params \in TwiceInputs
    /\ pc = "call"
    /\ sharedParams = Undefined
    /\ earlyRepaymentRecords = Undefined
    /\ schedule = <<>>
    /\ remainingTermMonths = 0
    /\ startMonthlyPayment = Undefined
    /\ window = Undefined
    /\ returned = Undefined

NextTwice ==
    \/ Reject
    \/ Call
    \/ InterestOnlyPeriod
    \/ FinalPayment
    \/ AnnuityPeriod
    \/ AmortizationPeriod
    \/ CallAgain

SpecTwice == InitTwice /\ [][NextTwice]_vars

(***************************************************************************)
(* Properties                                                              *)
(***************************************************************************)
Returned == pc = "done"

Last(seq) == seq[Len(seq)]

\* C1: the last entry of a returned schedule has remainingPrincipal = 0, for
\* every valid input, termMonths = 1 with interestOnlyFirstPeriod included.
C1_LastEntryRepaid ==
    Returned => NumEq(Last(schedule).remainingPrincipal, Num(0))

Running == pc \in {"loop", "done"}

NotNegative(x) == ~Lt(x, Num(0))

\* C2: no entry has a negative principalAmount, interestAmount or
\* remainingPrincipal, and the running remainingPrincipal of the engine is
\* never negative after a loop iteration.
C2_NoNegativeAmounts ==
    Running =>
        /\ \A i \in 1..Len(schedule) :
              /\ NotNegative(schedule[i].principalAmount)
              /\ NotNegative(schedule[i].interestAmount)
              /\ NotNegative(schedule[i].remainingPrincipal)
        /\ NotNegative(sharedParams.remainingPrincipal)

\* the sum of principalAmount over the entries seq[1..k]
RECURSIVE SumPrincipalTo(_, _)
SumPrincipalTo(seq, k) ==
    IF k = 0 THEN Num(0) ELSE Add(SumPrincipalTo(seq, k - 1), seq[k].principalAmount)

SumPrincipal(seq) == SumPrincipalTo(seq, Len(seq))

\* one unit of the last rounded decimal: 10^-roundingDecimals
RoundingUnit == Inv(Num(IntPow(10, params.roundingDecimals)))

AbsNum(x0) == Let(x0, LAMBDA x : IF x.n < 0 THEN Neg(x) ELSE x)

\* C3: the principal parts of all entries of a returned schedule add up to the
\* original principal, within one rounding unit.
C3_PrincipalSum ==
    Returned =>
        Leq(AbsNum(Sub(SumPrincipal(schedule), params.principal)), RoundingUnit)

\* C4: remainingPrincipal never increases from one entry of the schedule to
\* the next.
C4_BalanceNeverIncreases ==
    Running =>
        \A i \in 1..(Len(schedule) - 1) :
            ~Lt(schedule[i].remainingPrincipal, schedule[i + 1].remainingPrincipal)

\* the last loop iteration has run: window holds its locals, and the entries it
\* appended are the early-repayment entries followed by the regular entry
Windowed == Running /\ "start" \in DOMAIN window

WindowEarlyEntries ==
    SubSeq(schedule, Len(schedule) - window.applied, Len(schedule) - 1)

WindowRegularEntry == schedule[Len(schedule)]

\* the interest accrued on a balance between two dates, as the engine computes it
InterestBetween(balance, from, to) ==
    AccruedInterest(balance, params.annualInterestRatePercent,
        getMonthDaysAndYearDays(to, params.dayCountBasis).daysInYear,
        differenceInCalendarDays(to, from), params.roundingDecimals)

\* C5: the early repayments of one window are applied in ascending due-date
\* order, each to the state left by the previous one: the balance after the
\* window is the starting balance minus the principal of all the window's
\* early-repayment entries, and an early repayment that reduces the principal
\* carries the interest accrued since the previous one.
C5_ChainedEarlyRepayments ==
    (Windowed /\ window.selected >= 2) =>
        Let(WindowEarlyEntries, LAMBDA early :
            /\ \A j \in 1..(Len(early) - 1) :
                   DateLeq(early[j].paymentDate, early[j + 1].paymentDate)
            /\ NumEq(window.afterEarly.remainingPrincipal,
                     Sub(window.start.remainingPrincipal, SumPrincipal(early)))
            /\ \A j \in 1..(Len(early) - 1) :
                   Lt(Num(0), early[j + 1].principalAmount) =>
                       NumEq(early[j + 1].interestAmount,
                             InterestBetween(early[j].remainingPrincipal,
                                             early[j].paymentDate,
                                             early[j + 1].paymentDate)))

\* C6: once the balance has reached 0 the schedule terminates: no entry follows
\* the first entry whose remainingPrincipal is 0.
C6_NothingAfterZeroBalance ==
    Running =>
        \A i \in 1..(Len(schedule) - 1) :
            ~NumEq(schedule[i].remainingPrincipal, Num(0))

\* a returned schedule of a loan at 0 % without early repayments and without an
\* interest-only first period
ZeroRateReturned ==
    /\ Returned
    /\ NumEq(params.annualInterestRatePercent, Num(0))
    /\ Len(params.earlyRepayments) = 0
    /\ ~params.interestOnlyFirstPeriod

\* C7: at 0 % without early repayments the standing payment is principal / n and
\* the schedule has termMonths entries, each with interestAmount 0 and an equal
\* principal part (except possibly the last), with the balance falling to 0; for
\* 12000 over 12 months these are 12 payments of 1000 with the balance going from
\* 11000 down to 0.
C7_ZeroRateSchedule ==
    ZeroRateReturned =>
        /\ NumEq(startMonthlyPayment, Div(params.principal, Num(params.termMonths)))
        /\ Len(schedule) = params.termMonths
        /\ \A i \in 1..Len(schedule) : NumEq(schedule[i].interestAmount, Num(0))
        /\ \A i \in 1..(Len(schedule) - 1) :
               /\ NumEq(schedule[i].principalAmount, schedule[1].principalAmount)
               /\ Leq(schedule[i + 1].remainingPrincipal, schedule[i].remainingPrincipal)
        /\ NumEq(Last(schedule).remainingPrincipal, Num(0))
        /\ (NumEq(params.principal, Num(12000)) /\ params.termMonths = 12) =>
               \A i \in 1..Len(schedule) :
                   /\ NumEq(schedule[i].paymentAmount, Num(1000))
                   /\ NumEq(schedule[i].remainingPrincipal, Num(12000 - 1000 * i))

\* the regular periods without an early repayment: a regular entry that follows
\* the issue date or another regular entry
PlainPeriods ==
    {i \in 1..Len(schedule) :
        /\ ~schedule[i].isEarlyRepayment
        /\ (i = 1 \/ ~schedule[i - 1].isEarlyRepayment)}

PeriodStartBalance(i) ==
    IF i = 1 THEN params.principal ELSE schedule[i - 1].remainingPrincipal

PeriodStartDate(i) ==
    IF i = 1 THEN params.issueDate ELSE schedule[i - 1].paymentDate

PeriodDays(i) == DayNumber(schedule[i].paymentDate) - DayNumber(PeriodStartDate(i))

\* round(balance * rate * days / 36000)
InterestByDays(i) ==
    roundDecimals(
        Div(Mul(Mul(PeriodStartBalance(i), params.annualInterestRatePercent),
                Num(PeriodDays(i))),
            Num(36000)),
        params.roundingDecimals)

\* round(balance * rate / 1200)
InterestByMonth(i) ==
    roundDecimals(
        Div(Mul(PeriodStartBalance(i), params.annualInterestRatePercent), Num(1200)),
        params.roundingDecimals)

Actual360 == Running /\ params.dayCountBasis = "ACTUAL_360"

IsScenarioB ==
    /\ NumEq(params.principal, Num(100000))
    /\ NumEq(params.annualInterestRatePercent, Num(12))
    /\ params.termMonths = 3
    /\ params.loanType = "AMORTIZATION"
    /\ params.roundingDecimals = 2

\* C8, as stated: under ACTUAL_360 the interest of every regular period without
\* an early repayment is round(balance * rate / 1200) whatever the number of
\* calendar days of the period; for 100000 at 12 % over 3 months, differentiated,
\* the entries carry 1000.00, 666.67 and 333.33 of interest for any issue date.
C8_Actual360InterestByMonth ==
    Actual360 =>
        /\ \A i \in PlainPeriods :
               schedule[i].interestAmount = InterestByMonth(i)
        /\ (IsScenarioB /\ Returned) =>
               /\ Len(schedule) = 3
               /\ NumEq(schedule[1].interestAmount, Num(1000))
               /\ NumEq(schedule[2].interestAmount, Div(Num(66667), Num(100)))
               /\ NumEq(schedule[3].interestAmount, Div(Num(33333), Num(100)))

\* C8, amended: under ACTUAL_360 the interest of every regular period without an
\* early repayment is round(balance * rate * days / 36000), days being the
\* calendar days between the two payment dates; it is round(balance * rate / 1200)
\* when the period has 30 days.
C8_Actual360InterestByDays ==
    Actual360 =>
        \A i \in PlainPeriods :
            /\ schedule[i].interestAmount = InterestByDays(i)
            /\ (PeriodDays(i) = 30) =>
                   schedule[i].interestAmount = InterestByMonth(i)

\* scenario B has run to its end with a period of 30 days and a period of another
\* length, whose interest is not the monthly figure
C8_Actual360Witness ==
    /\ Actual360
    /\ Returned
    /\ IsScenarioB
    /\ \E i \in PlainPeriods :
           /\ PeriodDays(i) = 30
           /\ NumEq(schedule[i].interestAmount, InterestByMonth(i))
    /\ \E i \in PlainPeriods :
           /\ PeriodDays(i) # 30
           /\ NumEq(schedule[i].interestAmount, InterestByDays(i))
           /\ NumNe(schedule[i].interestAmount, InterestByMonth(i))

\* the balance and the anchor date that early repayment number j of the window
\* starts from when the repayments of a window are chained
WindowBalanceBefore(j) ==
    IF j = 1 THEN window.start.remainingPrincipal
    ELSE WindowEarlyEntries[j - 1].remainingPrincipal

WindowAnchorBefore(j) ==
    IF j = 1 THEN window.start.currentDate
    ELSE WindowEarlyEntries[j - 1].paymentDate

\* the interest accrued up to the due date of early repayment number j
AccruedBefore(j) ==
    InterestBetween(WindowBalanceBefore(j), WindowAnchorBefore(j),
                    window.nextEarlyRepayment[j].earlyRepaymentDate)

\* the applied early repayments of the window that pay less than that interest
SmallRepayments ==
    {j \in 1..window.applied :
        Lt(window.nextEarlyRepayment[j].earlyRepaymentAmount, AccruedBefore(j))}

\* C9: an early repayment below the interest accrued up to its due date (a) is
\* entered with principalAmount 0 and interestAmount = amount and leaves the
\* balance unchanged, (b) makes the interest of the next regular entry the
\* shortfall, (c) the regular entry after that one is computed by the day-count
\* formula again, and (d) a ONCE rule is gone from the registry afterwards.
C9_SmallRepaymentCarry ==
    /\ Windowed =>
           \A j \in SmallRepayments :
               Let2(window.nextEarlyRepayment[j], WindowEarlyEntries[j],
                    LAMBDA rule, entry :
                   /\ NumEq(entry.principalAmount, Num(0))
                   /\ NumEq(entry.interestAmount, rule.earlyRepaymentAmount)
                   /\ NumEq(entry.remainingPrincipal, WindowBalanceBefore(j))
                   /\ (j = window.applied) =>
                          NumEq(WindowRegularEntry.interestAmount,
                                Sub(AccruedBefore(j), rule.earlyRepaymentAmount))
                   /\ (rule.periodicity = "ONCE") =>
                          rule.id \notin DOMAIN earlyRepaymentRecords)
    /\ Running =>
           \A i \in PlainPeriods :
               (/\ i >= 3
                /\ schedule[i - 2].isEarlyRepayment
                /\ NumEq(schedule[i - 2].principalAmount, Num(0))) =>
                   schedule[i].interestAmount =
                       InterestBetween(PeriodStartBalance(i), PeriodStartDate(i),
                                       schedule[i].paymentDate)

RECURSIVE SumInterestTo(_, _)
SumInterestTo(seq, k) ==
    IF k = 0 THEN Num(0) ELSE Add(SumInterestTo(seq, k - 1), seq[k].interestAmount)

RECURSIVE SumAccruedTo(_)
SumAccruedTo(j) ==
    IF j = 0 THEN Num(0) ELSE Add(SumAccruedTo(j - 1), AccruedBefore(j))

\* the interest the entries of the window charge: its early-repayment entries
\* and its regular entry
WindowInterestCharged ==
    Add(SumInterestTo(WindowEarlyEntries, window.applied),
        WindowRegularEntry.interestAmount)

\* the interest accrued over the window: up to each repayment date on the
\* balance before it, and from the last repayment date to the regular payment
\* date on the balance after it
WindowInterestAccrued ==
    Let(WindowEarlyEntries[window.applied], LAMBDA last :
        Add(SumAccruedTo(window.applied),
            InterestBetween(last.remainingPrincipal, last.paymentDate,
                            WindowRegularEntry.paymentDate)))

\* C10: in a window in which early repayments are applied, the interest charged
\* by the window's entries equals the interest accrued over the whole window,
\* within one rounding unit per accrual.
C10_InterestConserved ==
    (Windowed /\ window.applied >= 1) =>
        Leq(AbsNum(Sub(WindowInterestCharged, WindowInterestAccrued)),
            Mul(Num(window.applied + 1), RoundingUnit))

IsPrefix(s, t) == Len(s) <= Len(t) /\ SubSeq(t, 1, Len(s)) = s

\* paymentDate does not decrease along the schedule, and the entries of the last
\* iteration are its early-repayment entries followed by its regular entry
ScheduleOrdered ==
    /\ \A i \in 1..(Len(schedule) - 1) :
           DateLeq(schedule[i].paymentDate, schedule[i + 1].paymentDate)
    /\ Windowed =>
           /\ ~WindowRegularEntry.isEarlyRepayment
           /\ \A j \in 1..window.applied : WindowEarlyEntries[j].isEarlyRepayment

\* C11: the schedule of a loan issued on a valid date is ordered by date, the
\* early-repayment entries of a window standing before its regular entry in
\* ascending date order, and every step only appends to it: the entries already
\* there are neither changed nor removed.
C11_AppendOnlyOrdered ==
    /\ []((Running /\ isValid(params.issueDate)) => ScheduleOrdered)
    /\ [][IsPrefix(schedule, schedule')]_vars

\* a window has appended two early repayments of different dates and its regular
\* entry behind entries of an earlier window
C11_OrderedWitness ==
    /\ Windowed
    /\ window.applied >= 2
    /\ Len(schedule) > window.applied + 1
    /\ WindowEarlyEntries[1].paymentDate # WindowEarlyEntries[2].paymentDate

\* the parameters fail a validation: a non-positive principal or term, a
\* negative rate, or an issue date that is not a valid date
ValidationFailure ==
    \/ Leq(params.principal, Num(0))
    \/ params.termMonths <= 0
    \/ Lt(params.annualInterestRatePercent, Num(0))
    \/ ~isValid(params.issueDate)

\* C12: every validation failure is reported before any schedule computation
\* starts: the call ends in the error outcome and returns no schedule, not even
\* a partial one.
C12_FailFast ==
    ValidationFailure =>
        /\ pc \in {"call", "error"}
        /\ schedule = <<>>
        /\ startMonthlyPayment = Undefined

\* the second call on the same params object has come to its end
ReturnedAgain == returned # Undefined /\ pc \in {"done", "error"}

\* C13: a second call with the same parameter object ends as the first one did:
\* an error again, or the same sequence of entries and the same
\* startMonthlyPayment; while it runs its schedule is a prefix of the first one.
C13_SameResultTwice ==
    /\ (returned # Undefined /\ pc # "call") => IsPrefix(schedule, returned.schedule)
    /\ ReturnedAgain =>
           /\ pc = returned.outcome
           /\ schedule = returned.schedule
           /\ startMonthlyPayment = returned.startMonthlyPayment

\* a schedule with an early repayment has been returned a second time to a
\* caller whose issueDate carried a time of day at the first call
C13_TwiceWitness ==
    /\ ReturnedAgain
    /\ pc = "done"
    /\ \E i \in 1..Len(schedule) : schedule[i].isEarlyRepayment
    /\ Len(returned.schedule) > 2
    /\ params.issueHours = 0

\* value is an integer multiple of 10^-roundingDecimals
IsRounded(value0) ==
    Let(value0, LAMBDA value :
        value.d # 0 /\ (value.n * IntPow(10, params.roundingDecimals)) % value.d = 0)

\* C14: in every emitted entry paymentAmount, interestAmount, principalAmount
\* and remainingPrincipal are integer multiples of 10^-roundingDecimals.
C14_EntriesRounded ==
    \A i \in 1..Len(schedule) :
        /\ IsRounded(schedule[i].paymentAmount)
        /\ IsRounded(schedule[i].interestAmount)
        /\ IsRounded(schedule[i].principalAmount)
        /\ IsRounded(schedule[i].remainingPrincipal)

\* the regular payments of the term that amortize and were still to come when the
\* early repayments of the last window were made: the payment of the window
\* itself included, unless it is the interest-only one
PeriodsRemaining ==
    IF window.branch \in {"INTEREST_ONLY", "FINAL"} THEN remainingTermMonths
    ELSE remainingTermMonths + 1

\* the last window applied one early repayment, a DECREASE_PAYMENT on an ANNUITY
\* loan issued on a valid date
DecreasedPayment ==
    /\ Windowed
    /\ isValid(params.issueDate)
    /\ params.loanType = "ANNUITY"
    /\ window.selected = 1
    /\ window.applied = 1
    /\ window.nextEarlyRepayment[1].repaymentType = "DECREASE_PAYMENT"

\* a schedule of an ANNUITY loan has been returned whose early repayments were
\* all made by DECREASE_PAYMENT rules
ReturnedDecreased ==
    /\ Returned
    /\ isValid(params.issueDate)
    /\ params.loanType = "ANNUITY"
    /\ \A k \in 1..Len(params.earlyRepayments) :
           params.earlyRepayments[k].repaymentType = "DECREASE_PAYMENT"
    /\ \E i \in 1..Len(schedule) : schedule[i].isEarlyRepayment

\* C15: after a DECREASE_PAYMENT early repayment on an ANNUITY loan the standing
\* payment is the annuity formula of the new remainingPrincipal over the periods
\* still remaining in the term, and the principal left for the last entry of the
\* returned schedule is not larger than the standing payment.
C15_DecreasePaymentOverRemainingTerm ==
    /\ DecreasedPayment =>
           window.afterEarly.annuityMonthlyPayment =
               calculateAnnuityMonthlyPayment(window.afterEarly.remainingPrincipal,
                   window.afterEarly.monthlyInterestRate, PeriodsRemaining,
                   params.roundingDecimals)
    /\ ReturnedDecreased =>
           Leq(Last(schedule).principalAmount, sharedParams.annuityMonthlyPayment)

\* the periods that remain to amortize at the start of the schedule: all of the
\* term, less the interest-only period when there is one
PeriodsToAmortize ==
    IF params.interestOnlyFirstPeriod THEN params.termMonths - 1 ELSE params.termMonths

\* C16: the period count used for the standing annuity payment and the constant
\* differentiated principal at the start of the schedule is the number of
\* periods that remain to amortize, and it is at least 1 whenever the loan has
\* an amortizing period, so that neither value comes from a division by zero or
\* by a negative count.
C16_StartPeriodCount ==
    (pc \in {"loop", "done"}) =>
        /\ sharedParams.termMonthsToCalculate = PeriodsToAmortize
        /\ PeriodsToAmortize >= 1 =>
               /\ sharedParams.termMonthsToCalculate >= 1
               /\ IsFinite(Div(params.principal, Num(sharedParams.termMonthsToCalculate)))

\* the registry after a call and before the first window
RegistryStarted == pc = "loop" /\ schedule = <<>>

\* every rule of the registry is due on its start date
DueOnStart ==
    \A id \in DOMAIN earlyRepaymentRecords :
        earlyRepaymentRecords[id].earlyRepaymentDate =
            earlyRepaymentRecords[id].earlyRepaymentDateStart

\* the rule is no longer in the registry
Removed(rule) == rule.id \notin DOMAIN earlyRepaymentRecords

\* the rule is in the registry, due on date and otherwise unchanged
DueOn(rule, date) ==
    /\ rule.id \in DOMAIN earlyRepaymentRecords
    /\ earlyRepaymentRecords[rule.id] = [rule EXCEPT !.earlyRepaymentDate = date]

\* what the registry holds of a rule after the window in which it was applied
LifecycleStep(rule) ==
    IF rule.periodicity = "ONCE" THEN Removed(rule)
    ELSE Let(addMonths(rule.earlyRepaymentDate, PeriodMonths(rule.periodicity)),
             LAMBDA advanced :
                IF /\ rule.earlyRepaymentDateEnd # NoDate
                   /\ DateLt(rule.earlyRepaymentDateEnd, advanced)
                THEN Removed(rule)
                ELSE DueOn(rule, advanced))

\* the early-repayment entries of the schedule
EarlyEntries == {i \in 1..Len(schedule) : schedule[i].isEarlyRepayment}

\* every rule of the loan is a ONCE rule
OnlyOnceRules ==
    \A k \in 1..Len(params.earlyRepayments) : params.earlyRepayments[k].periodicity = "ONCE"

\* C17: a rule is first due on its start date; a rule applied in a window is
\* afterwards removed from the registry when it is a ONCE rule or when its due
\* date, advanced by 1, 3 or 12 months, is later than its end bound, and is
\* otherwise due on the advanced date; ONCE rules are applied at most once each.
C17_RuleLifecycle ==
    /\ RegistryStarted => DueOnStart
    /\ Windowed =>
           \A k \in 1..window.applied : LifecycleStep(window.nextEarlyRepayment[k])
    /\ (Running /\ OnlyOnceRules) =>
           Cardinality(EarlyEntries) <= Len(params.earlyRepayments)

\* the rules selected for the last window, as they were when selected
Selected == window.nextEarlyRepayment

\* the selected rules are of different classes, due in (currentDate, nextDate]
\* and sorted by due date; each of the window's early-repayment entries is one
\* of them
SelectedInWindow ==
    /\ \A k, l \in 1..window.selected :
           /\ k # l => Selected[k].periodicity # Selected[l].periodicity
           /\ k < l => DateLeq(Selected[k].earlyRepaymentDate, Selected[l].earlyRepaymentDate)
    /\ \A k \in 1..window.selected :
           /\ DateLt(window.start.currentDate, Selected[k].earlyRepaymentDate)
           /\ DateLeq(Selected[k].earlyRepaymentDate, window.start.nextDate)
    /\ window.applied <= window.selected
    /\ window.selected <= 4
    /\ \A k \in 1..window.applied :
           WindowEarlyEntries[k].paymentDate = Selected[k].earlyRepaymentDate

\* rule is the earliest-due rule of its class in the registry, the first
\* registered among those due on the same date
EarliestOfClass(rule, records) ==
    \A id \in DOMAIN records :
        records[id].periodicity = rule.periodicity =>
            \/ DateLt(rule.earlyRepaymentDate, records[id].earlyRepaymentDate)
            \/ /\ rule.earlyRepaymentDate = records[id].earlyRepaymentDate
               /\ rule.id <= id

\* C18: the rules selected for a window (currentDate, nextDate] are at most one
\* per periodicity class, the earliest-due rule of the class with ties broken by
\* registration order, each due after currentDate and not after nextDate, in
\* ascending order of due date; a window has at most four early-repayment
\* entries.
C18_SelectionPerWindow ==
    /\ []((Windowed /\ isValid(params.issueDate)) => SelectedInWindow)
    /\ [][(pc = "loop" /\ isValid(params.issueDate)) =>
              \A k \in 1..window'.selected :
                  EarliestOfClass(window'.nextEarlyRepayment[k], earlyRepaymentRecords)]_vars

\* the first window of a loan with five rules that are all due in it, two of them
\* of one class: four have been selected and applied
C18_ClassHeadWitness ==
    /\ Windowed
    /\ window.start.currentDate = params.issueDate
    /\ Len(params.earlyRepayments) = 5
    /\ window.selected = 4
    /\ window.applied = 4

\* C19: no early repayment is applied after the end bound of its rule: the entry
\* of a rule that has an end date is dated on or before that date, the first
\* application of the rule included.
C19_NotAfterEndBound ==
    (Windowed /\ isValid(params.issueDate)) =>
        \A k \in 1..window.applied :
            Selected[k].earlyRepaymentDateEnd # NoDate =>
                DateLeq(WindowEarlyEntries[k].paymentDate, Selected[k].earlyRepaymentDateEnd)

\* the period is the last scheduled month, or it is an amortizing period of an
\* ANNUITY loan whose balance is not larger than the standing payment
FinalDue(months, sp) ==
    \/ months = 1
    \/ /\ params.loanType = "ANNUITY"
       /\ ~(months = params.termMonths /\ params.interestOnlyFirstPeriod)
       /\ Leq(sp.remainingPrincipal, sp.annuityMonthlyPayment)

\* entry repays the whole balance of sp with the interest of the period
RepaysAll(entry, sp, interestAmount) ==
    /\ ~entry.isEarlyRepayment
    /\ entry.paymentDate = sp.nextDate
    /\ entry.principalAmount = sp.remainingPrincipal
    /\ entry.interestAmount = interestAmount
    /\ entry.paymentAmount =
           roundDecimals(Add(sp.remainingPrincipal, interestAmount), params.roundingDecimals)
    /\ entry.remainingPrincipal = Num(0)

\* C20: an iteration emits the final entry exactly when the period is the last
\* scheduled month or the loan is ANNUITY and remainingPrincipal <= the standing
\* payment: the entry repays the whole balance, the loop stops with it as the
\* last entry and no anchor date is advanced; otherwise the loop goes on.
C20_FinalEntry ==
    [][pc = "loop" =>
          IF FinalDue(remainingTermMonths, window'.afterEarly)
          THEN /\ RepaysAll(Last(schedule'), window'.afterEarly, window'.interestAmount)
               /\ pc' = "done"
               /\ sharedParams'.currentDate = window'.afterEarly.currentDate
               /\ sharedParams'.nextDate = window'.afterEarly.nextDate
          ELSE pc' = "loop"]_vars

\* the regular entries of the schedule
RegularEntries == {i \in 1..Len(schedule) : ~schedule[i].isEarlyRepayment}

\* entry is an interest-only payment on the balance of sp
PaysInterestOnly(entry, sp) ==
    /\ ~entry.isEarlyRepayment
    /\ entry.principalAmount = Num(0)
    /\ entry.paymentAmount = entry.interestAmount
    /\ entry.remainingPrincipal = sp.remainingPrincipal

\* C21: an iteration takes the interest-only step exactly when
\* interestOnlyFirstPeriod is set and the schedule has no regular entry yet; its
\* entry has principalAmount 0 and paymentAmount = interestAmount and leaves
\* remainingPrincipal as the early repayments of the window left it; every later
\* regular entry comes from the amortizing or the final step.
C21_InterestOnlyFirstPeriod ==
    [][pc = "loop" =>
          /\ window'.branch = "INTEREST_ONLY" <=>
                 (params.interestOnlyFirstPeriod /\ RegularEntries = {})
          /\ window'.branch = "INTEREST_ONLY" =>
                 /\ PaysInterestOnly(Last(schedule'), window'.afterEarly)
                 /\ sharedParams'.remainingPrincipal = window'.afterEarly.remainingPrincipal]_vars

\* a schedule that starts with an early repayment and the interest-only entry
\* and goes on with amortizing entries has been returned
C21_InterestOnlyWitness ==
    /\ Returned
    /\ params.interestOnlyFirstPeriod
    /\ Cardinality(RegularEntries) >= 3
    /\ schedule[1].isEarlyRepayment
    /\ NumNe(schedule[1].principalAmount, Num(0))
    /\ PaysInterestOnly(schedule[2], [remainingPrincipal |-> schedule[1].remainingPrincipal])
    /\ NumNe(schedule[3].principalAmount, Num(0))

\* the smaller of two numbers
MinNum(x0, y0) == Let2(x0, y0, LAMBDA x, y : IF Leq(x, y) THEN x ELSE y)

\* the applied early repayments of the window that pay more than the interest
\* accrued up to their due date
LargeRepayments ==
    {j \in 1..window.applied :
        Lt(AccruedBefore(j), window.nextEarlyRepayment[j].earlyRepaymentAmount)}

\* C22: an early repayment above the accrued interest never overpays: its
\* principalAmount is the smaller of amount - accrued interest and the balance
\* before it, the balance after it is not negative, and paymentAmount =
\* interestAmount + principalAmount, also when the balance is clamped to 0.
C22_NoOverpayment ==
    Windowed =>
        \A j \in LargeRepayments :
            Let2(window.nextEarlyRepayment[j], WindowEarlyEntries[j], LAMBDA rule, entry :
                /\ NumEq(entry.principalAmount,
                         MinNum(Sub(rule.earlyRepaymentAmount, AccruedBefore(j)),
                                WindowBalanceBefore(j)))
                /\ NotNegative(entry.remainingPrincipal)
                /\ NumEq(entry.paymentAmount,
                         Add(entry.interestAmount, entry.principalAmount)))

\* the number of the calendar month of a date, counted through the years
MonthNumber(date) == date.y * 12 + date.m

\* to lies in the calendar month that follows the month of from, on the given
\* day of the month or on the last day of a shorter month
NextMonthOnDay(from, to, day) ==
    /\ MonthNumber(to) = MonthNumber(from) + 1
    /\ to.d = Min(day, getDaysInMonth(to.y, to.m))

\* the regular entries in the order of the schedule
RegularSchedule == SelectSeq(schedule, LAMBDA entry : ~entry.isEarlyRepayment)

\* C23: without weekend shifting the date computed from an anchor date lies in
\* the calendar month that follows the anchor's month, on day paymentDayNumber
\* or on the last day of a shorter month, so that consecutive regular payment
\* dates fall in consecutive calendar months.
C23_NextDateInNextMonth ==
    (Running /\ isValid(params.issueDate) /\ ~params.moveHolidayToNextDay) =>
        /\ pc = "loop" =>
               NextMonthOnDay(sharedParams.currentDate, sharedParams.nextDate,
                              PaymentDayNumber(params))
        /\ \A i \in 1..(Len(RegularSchedule) - 1) :
               MonthNumber(RegularSchedule[i + 1].paymentDate) =
                   MonthNumber(RegularSchedule[i].paymentDate) + 1

\* the date falls on a Saturday (6) or a Sunday (0)
OnWeekend(date) == DayNumber(date) % 7 \in {0, 6}

\* shifted is date itself when date is a working day, and the Monday that
\* follows it when date falls on a weekend
ShiftedToMonday(date, shifted) ==
    IF OnWeekend(date)
    THEN /\ DayNumber(shifted) % 7 = 1
         /\ DayNumber(shifted) - DayNumber(date) \in {1, 2}
    ELSE shifted = date

\* the interest of regular period i over the calendar days between its two dates
InterestOverDays(i) ==
    AccruedInterest(PeriodStartBalance(i), params.annualInterestRatePercent,
        getMonthDaysAndYearDays(schedule[i].paymentDate, params.dayCountBasis).daysInYear,
        Num(PeriodDays(i)), params.roundingDecimals)

\* C24: with moveHolidayToNextDay no regular entry is dated on a Saturday or a
\* Sunday: a next payment date that falls on a weekend is moved to the following
\* Monday, and the interest of a period is accrued over the calendar days
\* between the shifted dates.
C24_WeekendShift ==
    (Running /\ isValid(params.issueDate) /\ params.moveHolidayToNextDay) =>
        /\ \A i \in 1..Len(schedule) :
               ~schedule[i].isEarlyRepayment => ~OnWeekend(schedule[i].paymentDate)
        /\ pc = "loop" =>
               ShiftedToMonday(moveToNextDate(sharedParams.currentDate,
                                              PaymentDayNumber(params), FALSE),
                               sharedParams.nextDate)
        /\ \A i \in PlainPeriods : schedule[i].interestAmount = InterestOverDays(i)

\* a schedule has been returned whose payment of Saturday 2024-06-15 was moved to
\* Monday 2024-06-17, with an interest over the 33 days since 2024-05-15 and the
\* next period counted from the shifted date
C24_ShiftedWitness ==
    /\ Returned
    /\ params.moveHolidayToNextDay
    /\ params.issueDate = Date(2024, 5, 15)
    /\ Len(schedule) >= 2
    /\ schedule[1].paymentDate = Date(2024, 6, 17)
    /\ PeriodDays(1) = 33
    /\ schedule[2].paymentDate = Date(2024, 7, 15)
    /\ PeriodDays(2) = 28
    /\ Lt(Num(0), schedule[1].interestAmount)

\* the number of iterations of the loop for an ANNUITY loan without early
\* repayments, from the state sp with the given months of the term left
RECURSIVE PlainAnnuityPeriods(_, _)
PlainAnnuityPeriods(sp0, months) ==
    Let(sp0, LAMBDA sp :
        IF months <= 0 THEN 0
        ELSE IF months = params.termMonths /\ params.interestOnlyFirstPeriod
        THEN 1 + PlainAnnuityPeriods(Advance(sp), months - 1)
        ELSE IF months = 1 \/ Leq(sp.remainingPrincipal, sp.annuityMonthlyPayment)
        THEN 1
        ELSE Let(roundDecimals(Sub(sp.remainingPrincipal,
                                   AnnuityPrincipal(sp, RegularInterest(sp))),
                               params.roundingDecimals),
                 LAMBDA remaining :
                    1 + PlainAnnuityPeriods(
                            Advance([sp EXCEPT !.remainingPrincipal = remaining]),
                            months - 1)))

\* every rule of an ANNUITY loan issued on a valid date is a DECREASE_TERM rule
OnlyDecreaseTerm ==
    /\ isValid(params.issueDate)
    /\ params.loanType = "ANNUITY"
    /\ \A k \in 1..Len(params.earlyRepayments) :
           params.earlyRepayments[k].repaymentType = "DECREASE_TERM"

\* the fields of the engine state that an early repayment may change are reset
SameButRepaid(sp) ==
    [sp EXCEPT !.remainingPrincipal = Num(0), !.remainingInterestAmount = Num(0),
               !.previousDate = NoDate, !.currentDate = NoDate]

\* the regular entries that are neither the interest-only entry nor the final one
AnnuityEntries ==
    {i \in RegularEntries :
        /\ ~(Returned /\ window.branch = "FINAL" /\ i = Len(schedule))
        /\ ~(params.interestOnlyFirstPeriod /\ \A j \in RegularEntries : i <= j)}

\* C25: DECREASE_TERM early repayments on an ANNUITY loan leave the standing
\* payment and termMonthsToCalculate as they are and change only the balance,
\* the interest carry and the anchor dates; every regular entry that is not the
\* final one keeps the payment of the start, and the loan is repaid in no more
\* regular periods than without early repayments.
C25_DecreaseTermKeepsPayment ==
    (Running /\ OnlyDecreaseTerm) =>
        /\ (Windowed /\ window.applied >= 1) =>
               SameButRepaid(window.afterEarly) = SameButRepaid(window.start)
        /\ \A i \in AnnuityEntries : schedule[i].paymentAmount = startMonthlyPayment
        /\ Returned =>
               Cardinality(RegularEntries) <=
                   PlainAnnuityPeriods(InitialSharedParams(params), params.termMonths)

\* a schedule has been returned that a DECREASE_TERM repayment has shortened and
\* that has regular annuity payments behind the repayment
C25_ShortenedWitness ==
    /\ Returned
    /\ OnlyDecreaseTerm
    /\ Cardinality(EarlyEntries) >= 1
    /\ Cardinality(RegularEntries) <
           PlainAnnuityPeriods(InitialSharedParams(params), params.termMonths)
    /\ \E i \in AnnuityEntries : i > 1 /\ schedule[i - 1].isEarlyRepayment
                                       /\ Lt(Num(0), schedule[i - 1].principalAmount)

\* C26: no step of a call changes the caller's parameter object: the issueDate,
\* date and time of day, and the start and end dates of the rules are after the
\* call what they were before it, whether the call returns or fails.
C26_ParamsUnchanged == [][params' = params]_vars

\* no entry dated before date has brought the balance to 0
NotRepaidBefore(date) ==
    \A i \in 1..Len(schedule) :
        DateLt(schedule[i].paymentDate, date) => Lt(Num(0), schedule[i].remainingPrincipal)

\* the ONCE rules of the loan whose date lies after the issue date and not
\* after the last payment date, with a balance left to repay before it
OnceRulesDue ==
    {k \in 1..Len(params.earlyRepayments) :
        /\ params.earlyRepayments[k].periodicity = "ONCE"
        /\ DateLt(params.issueDate, params.earlyRepayments[k].earlyRepaymentDateStart)
        /\ DateLeq(params.earlyRepayments[k].earlyRepaymentDateStart,
                   Last(RegularSchedule).paymentDate)
        /\ NotRepaidBefore(params.earlyRepayments[k].earlyRepaymentDateStart)}

\* the early-repayment entries dated date
EarlyEntriesOn(date) == {i \in EarlyEntries : schedule[i].paymentDate = date}

\* C27: in a returned schedule every ONCE rule whose date lies after the issue
\* date and not after the last regular payment date, and before which the loan
\* is not repaid, has its early-repayment entry on its date, whatever other
\* rules are registered: a date has at least as many early-repayment entries as
\* such ONCE rules, and exactly as many when the loan has ONCE rules only.
C27_EveryOnceRuleFires ==
    (Returned /\ isValid(params.issueDate)) =>
        \A k \in OnceRulesDue :
            Let(params.earlyRepayments[k].earlyRepaymentDateStart, LAMBDA date :
            Let(Cardinality({l \in OnceRulesDue :
                    params.earlyRepayments[l].earlyRepaymentDateStart = date}),
                LAMBDA rules :
                    /\ Cardinality(EarlyEntriesOn(date)) >= rules
                    /\ OnlyOnceRules => Cardinality(EarlyEntriesOn(date)) = rules))

\* the registered recurring rules that start after the issue date
RecurringRegistered ==
    {id \in DOMAIN earlyRepaymentRecords :
        /\ earlyRepaymentRecords[id].periodicity # "ONCE"
        /\ DateLt(params.issueDate, earlyRepaymentRecords[id].earlyRepaymentDateStart)}

\* C28: a recurring rule never stalls: at the start of every window the next
\* due date of each registered MONTHLY, QUARTERLY or YEARLY rule (started after
\* the issue date) is later than currentDate, also when another rule of the
\* same periodicity is registered.
C28_RecurringNeverStalls ==
    (pc = "loop" /\ isValid(params.issueDate)) =>
        \A id \in RecurringRegistered :
            DateLt(sharedParams.currentDate, earlyRepaymentRecords[id].earlyRepaymentDate)

\* C29: with no early repayments a returned schedule has exactly termMonths
\* entries (so the loop ran at most termMonths times), for both loan types and
\* both values of interestOnlyFirstPeriod; with the flag set the first entry is
\* the interest-only one and the other termMonths - 1 entries repay principal.
C29_ExactlyTermMonthsEntries ==
    (Returned /\ isValid(params.issueDate) /\ params.earlyRepayments = <<>>) =>
        /\ Len(schedule) = params.termMonths
        /\ params.interestOnlyFirstPeriod =>
              /\ schedule[1].principalAmount = Num(0)
              /\ \A i \in 2..Len(schedule) : Lt(Num(0), schedule[i].principalAmount)

\* the positions of the regular entries that follow the interest-only one
AmortizingEntries ==
    {i \in RegularEntries :
        params.interestOnlyFirstPeriod => \E j \in RegularEntries : j < i}

\* the first amortizing regular entry when its window had no early repayment
FirstAmortizing ==
    {i \in AmortizingEntries :
        /\ \A j \in AmortizingEntries : i <= j
        /\ i > 1 => ~schedule[i - 1].isEarlyRepayment}

\* C30: for termMonths > 1 and no early repayment in the first amortizing
\* window, the returned startMonthlyPayment equals the paymentAmount of the
\* first amortizing regular entry of an ANNUITY loan, and the principal part
\* plus the interest of that entry of a differentiated (AMORTIZATION) loan.
C30_StartMonthlyPayment ==
    (Returned /\ isValid(params.issueDate) /\ params.termMonths > 1) =>
        \A i \in FirstAmortizing :
            IF params.loanType = "ANNUITY"
            THEN NumEq(startMonthlyPayment, schedule[i].paymentAmount)
            ELSE NumEq(startMonthlyPayment,
                       Add(schedule[i].principalAmount, schedule[i].interestAmount))

====
